---- MODULE Spec2Model ----
\* Snake game simulation loop (src/unnamed/part_000, the version with
\* difficulty presets; src/snake/main.js is the same loop with the single
\* preset "normal" and a floor of 60 ms).
EXTENDS Integers, Sequences, FiniteSets, TLC

\* ------------------------------------------------------------------ bounds
\* Executed (non-suppressed) ticks explored per game.
MaxTicks == 10
\* Directions are pressed only before this many ticks of a game have executed.
InputTicks == 2
\* Directions are pressed only while the queue is shorter than this.
MaxQueue == 3
\* Food draws are sampled from this many cells of the column right of the
\* start cell, from the start row downward.
FoodSpan == 2
\* The whole part of the largest best score found in storage at start-up.
MaxStoredBest == 1
\* In the long game the buttons and the select are used only before this
\* many ticks of a game have executed.
ClickTicks == 6

\* --------------------------------------------------------------- constants
GRID_SIZE == 20

DifficultyKeys == {"easy", "normal", "hard", "insane"}

\* The property names DIFFICULTIES inherits from Object.prototype:
\* DIFFICULTIES[key] is truthy for them although they name no preset.
InheritedKeys ==
  { "constructor", "__proto__", "toString", "toLocaleString", "valueOf",
    "hasOwnProperty", "isPrototypeOf", "propertyIsEnumerable",
    "__defineGetter__", "__defineSetter__", "__lookupGetter__",
    "__lookupSetter__" }

\* The keys found in storage that the model enumerates: the presets, one
\* inherited name (every inherited name takes the same path through the
\* code), and one name DIFFICULTIES does not have (an absent or empty stored
\* key reads as "normal" too). The select delivers the presets.
KeyInputs == DifficultyKeys \cup { "constructor", "bogus" }

\* The value undefined, which no number equals.
Undefined == -1

\* speedupPct is speedupFactor * 100 (0.94 -> 94): for every integer t in
\* 0..300 the double-precision value Math.floor(t * factor) equals
\* (t * pct) \div 100, so the integer form computes what the code computes.
DIFFICULTIES ==
  [ easy   |-> [initialSpeedMs |-> 200, speedupFoodInterval |-> 5, speedupPct |-> 94, minTickMs |-> 100],
    normal |-> [initialSpeedMs |-> 160, speedupFoodInterval |-> 4, speedupPct |-> 92, minTickMs |-> 75],
    hard   |-> [initialSpeedMs |-> 120, speedupFoodInterval |-> 3, speedupPct |-> 90, minTickMs |-> 60],
    insane |-> [initialSpeedMs |-> 90,  speedupFoodInterval |-> 2, speedupPct |-> 88, minTickMs |-> 45] ]

\* difficulty, the object DIFFICULTIES[difficultyKey]: a preset, or for an
\* inherited name an object none of whose preset fields is defined.
difficulty(key) ==
  IF key \in DifficultyKeys THEN DIFFICULTIES[key]
  ELSE [ initialSpeedMs |-> Undefined, speedupFoodInterval |-> Undefined,
         speedupPct |-> Undefined, minTickMs |-> Undefined ]

VARIABLES
  snake,           \* sequence of cells, head first
  directionQueue,  \* sequence of direction vectors, oldest first
  food,            \* cell
  score,
  best,            \* [whole, half]: the number whole + 1/2 when half, else whole
  tickMs,          \* a number of ms, or Undefined
  loopId,          \* id of the interval the game holds, 0 for null
  isPaused,
  isGameOver,
  difficultyKey,
  timers,          \* the live intervals of the page: id -> period
  lastEvent,       \* the handler that ran last
  ticks            \* executed ticks of this game (exploration bound)

vars == << snake, directionQueue, food, score, best, tickMs, loopId, isPaused,
           isGameOver, difficultyKey, timers, lastEvent, ticks >>

\* ---------------------------------------------------------------- helpers
Cell(x, y) == [x |-> x, y |-> y]

Grid == { Cell(x, y) : x \in 0 .. GRID_SIZE - 1, y \in 0 .. GRID_SIZE - 1 }

Max(a, b) == IF a >= b THEN a ELSE b

\* keyToDir / dirStringToVector for the four recognised keys.
Directions == { Cell(0, -1), Cell(0, 1), Cell(-1, 0), Cell(1, 0) }

positionsEqual(a, b) == a.x = b.x /\ a.y = b.y

\* The start cell of resetGame.
StartCell == Cell(GRID_SIZE \div 2, GRID_SIZE \div 2)

InitialSnake ==
  << StartCell, Cell(StartCell.x - 1, StartCell.y), Cell(StartCell.x - 2, StartCell.y) >>

\* The draws of Math.random the model enumerates.
FoodCells ==
  { c \in Grid : c.x = StartCell.x + 1 /\ c.y >= StartCell.y /\ c.y < StartCell.y + FoodSpan }

\* Variant of getRandomEmptyCell that does not test the first exclusion (the
\* head).
getRandomEmptyCell_SkipHead(exclusions) ==
  LET isFree(c) == \A i \in 2 .. Len(exclusions) : ~positionsEqual(exclusions[i], c)
      sampled   == { c \in FoodCells : isFree(c) }
  IN  IF sampled # {} THEN sampled ELSE { CHOOSE c \in Grid : isFree(c) }

\* getRandomEmptyCell: any cell of the grid that no exclusion equals. The
\* model enumerates the free cells of FoodCells, and one fixed free cell of
\* the grid when FoodCells is full. With no free cell the code loops for
\* ever: the set is empty.
getRandomEmptyCell(exclusions) ==
  LET isFree(c) == \A i \in 1 .. Len(exclusions) : ~positionsEqual(exclusions[i], c)
      free      == { c \in Grid : isFree(c) }
      sampled   == { c \in FoodCells : isFree(c) }
  IN  IF sampled # {} THEN sampled
      ELSE IF free = {} THEN {}
      ELSE { CHOOSE c \in free : TRUE }

\* setDifficultyFromKey: an unknown key is replaced by "normal".
setDifficultyFromKey(key) ==
  IF key \in DifficultyKeys \cup InheritedKeys THEN key ELSE "normal"

\* startLoop: clear the held interval if any, then arm a new one at period ms.
FreshId(tm) == CHOOSE i \in 1 .. Cardinality(DOMAIN tm) + 1 : i \notin DOMAIN tm

Without(tm, id) == [ i \in DOMAIN tm \ {id} |-> tm[i] ]

\* Variant of startLoop that arms a new interval without clearing the held
\* one.
startLoop_NoClear(tm, lid, ms) ==
  LET id == FreshId(tm)
  IN  [ timers |-> [ i \in DOMAIN tm \cup {id} |-> IF i = id THEN ms ELSE tm[i] ],
        loopId |-> id ]

startLoop(tm, lid, ms) ==
  LET cleared == IF lid # 0 THEN Without(tm, lid) ELSE tm
      id      == FreshId(cleared)
  IN  [ timers |-> [ i \in DOMAIN cleared \cup {id} |-> IF i = id THEN ms ELSE cleared[i] ],
        loopId |-> id ]

\* Variant of stopLoop that forgets the interval without clearing it.
stopLoop_ForgetOnly(tm, lid) == [ timers |-> tm, loopId |-> 0 ]

\* stopLoop: clear the held interval if any and forget it.
stopLoop(tm, lid) ==
  IF lid # 0 THEN [ timers |-> Without(tm, lid), loopId |-> 0 ]
  ELSE [ timers |-> tm, loopId |-> lid ]

\* Variant of updateScore that assigns the delta instead of adding it.
updateScore_Assign(s, delta) == delta

\* updateScore: the score after the call, and the best after score became s.
updateScore(s, delta) == s + delta

\* The best score is any finite number storage held; the model has the
\* whole numbers and the numbers half-way between two of them.
Number(n) == [ whole |-> n, half |-> FALSE ]

HalfAbove(n) == [ whole |-> n, half |-> TRUE ]

\* score > best, for a whole score s.
exceeds(s, b) == s > b.whole

\* The numbers init() finds in storage that the model enumerates: -1, 0
\* (also what an absent or non-finite entry reads as) and MaxStoredBest + 1/2.
StoredBests == { Number(-1), Number(0), HalfAbove(MaxStoredBest) }

\* Variant of updateBest that stores the score without comparing.
updateBest_Always(s, b) == Number(s)

updateBest(s, b) == IF exceeds(s, b) THEN Number(s) ELSE b

\* maybeSpeedUp: the tick interval after the score became s.
\* Variant of the speed-up test that fires on every food.
speedupDue_EveryFood(key, s) == s > 0

\* With an undefined interval the remainder is NaN, which is not 0.
speedupDue(key, s) ==
  /\ s > 0
  /\ difficulty(key).speedupFoodInterval # Undefined
  /\ s % difficulty(key).speedupFoodInterval = 0

\* Variant of newTick without the floor.
newTick_NoFloor(key, ms) == (ms * difficulty(key).speedupPct) \div 100

newTick(key, ms) ==
  Max(difficulty(key).minTickMs, (ms * difficulty(key).speedupPct) \div 100)

maybeSpeedUp(key, s, ms) == IF speedupDue(key, s) THEN newTick(key, ms) ELSE ms

\* queueDirection: the queue after the call.
isReversal(lastQueued, next) ==
  lastQueued.x + next.x = 0 /\ lastQueued.y + next.y = 0

\* Variant of queueDirection that tests against the active (first) entry.
queueDirection_VsActive(q, next) ==
  IF Len(q) = 0 THEN Append(q, next)
  ELSE IF isReversal(q[1], next) THEN q
  ELSE Append(q, next)

\* Variant of queueDirection without the reversal test.
queueDirection_NoCheck(q, next) == Append(q, next)

queueDirection(q, next) ==
  IF Len(q) = 0 THEN Append(q, next)
  ELSE IF isReversal(q[Len(q)], next) THEN q
  ELSE Append(q, next)

\* tick, line by line.
\* Variant of the shift that also removes a sole entry.
consumeOne_Always(q) == Tail(q)

consumeOne(q) == IF Len(q) > 1 THEN Tail(q) ELSE q

computeNextHead(head, dir) == Cell(head.x + dir.x, head.y + dir.y)

\* Variant of the wall test that lets the head one cell past the far edges.
hitsWall_OffByOne(c) == c.x < 0 \/ c.y < 0 \/ c.x > GRID_SIZE \/ c.y > GRID_SIZE

hitsWall(c) == c.x < 0 \/ c.y < 0 \/ c.x >= GRID_SIZE \/ c.y >= GRID_SIZE

\* Variants of hitsSelf: testing the head only, and leaving out the tail.
hitsSelf_HeadOnly(c, s) == positionsEqual(c, s[1])

hitsSelf_SkipTail(c, s) == \E i \in 1 .. Len(s) - 1 : positionsEqual(c, s[i])

hitsSelf(c, s) == \E i \in 1 .. Len(s) : positionsEqual(c, s[i])

unshift(s, c) == << c >> \o s

\* Variant of pop that removes the first cell (shift).
pop_Shift(s) == Tail(s)

\* Variant of pop that removes nothing.
pop_Keep(s) == s

pop(s) == SubSeq(s, 1, Len(s) - 1)

\* The coarse phase the flags encode.
Phase ==
  IF isGameOver THEN "GameOver" ELSE IF isPaused THEN "Paused" ELSE "Running"

\* ------------------------------------------------------------------- Init
\* The state init() leaves: stored best and difficulty read, then resetGame.
Init ==
  /\ difficultyKey \in { setDifficultyFromKey(savedDiff) : savedDiff \in KeyInputs }
  /\ best \in { updateBest(updateScore(0, 0), stored) : stored \in StoredBests }
  /\ snake = InitialSnake
  /\ directionQueue = << Cell(1, 0) >>
  /\ food \in getRandomEmptyCell(InitialSnake)
  /\ score = 0
  /\ tickMs = difficulty(difficultyKey).initialSpeedMs
  /\ isPaused = FALSE
  /\ isGameOver = FALSE
  /\ timers = (1 :> difficulty(difficultyKey).initialSpeedMs)
  /\ loopId = 1
  /\ lastEvent = "init"
  /\ ticks = 0

\* ---------------------------------------------------------------- actions
\* Variant of resetGame that keeps the direction queue.
resetGame_KeepQueue(key) ==
  LET ms == difficulty(key).initialSpeedMs
      sl == startLoop(timers, loopId, ms)
  IN  /\ snake' = InitialSnake
      /\ UNCHANGED directionQueue
      /\ food' \in getRandomEmptyCell(InitialSnake)
      /\ score' = updateScore(0, 0)
      /\ best' = updateBest(updateScore(0, 0), best)
      /\ tickMs' = ms
      /\ isPaused' = FALSE
      /\ isGameOver' = FALSE
      /\ timers' = sl.timers
      /\ loopId' = sl.loopId
      /\ difficultyKey' = key
      /\ ticks' = 0

\* resetGame with the difficulty key in force.
resetGame(key) ==
  LET ms == difficulty(key).initialSpeedMs
      sl == startLoop(timers, loopId, ms)
  IN  /\ snake' = InitialSnake
      /\ directionQueue' = << Cell(1, 0) >>
      /\ food' \in getRandomEmptyCell(InitialSnake)
      /\ score' = updateScore(0, 0)
      /\ best' = updateBest(updateScore(0, 0), best)
      /\ tickMs' = ms
      /\ isPaused' = FALSE
      /\ isGameOver' = FALSE
      /\ timers' = sl.timers
      /\ loopId' = sl.loopId
      /\ difficultyKey' = key
      /\ ticks' = 0

Restart ==
  /\ resetGame(difficultyKey)
  /\ lastEvent' = "restart"

\* Variant of the difficulty handler that does not call resetGame.
ChangeDifficulty_NoReset ==
  \E newKey \in DifficultyKeys \ { difficultyKey } :
    /\ difficultyKey' = setDifficultyFromKey(newKey)
    /\ lastEvent' = "difficulty"
    /\ UNCHANGED << snake, directionQueue, food, score, best, tickMs, loopId,
                    isPaused, isGameOver, timers, ticks >>

\* The change handler of the select: change fires when another option is
\* picked than the one shown, which init() set to difficultyKey.
ChangeDifficulty ==
  \E newKey \in DifficultyKeys \ { difficultyKey } :
    /\ resetGame(setDifficultyFromKey(newKey))
    /\ lastEvent' = "difficulty"

QueueDirection ==
  \E next \in Directions :
    /\ ticks < InputTicks
    /\ Len(directionQueue) < MaxQueue
    /\ directionQueue' = queueDirection(directionQueue, next)
    /\ lastEvent' = "queueDirection"
    /\ UNCHANGED << snake, food, score, best, tickMs, loopId, isPaused,
                    isGameOver, difficultyKey, timers, ticks >>

\* Variant of the body of togglePause without the game-over return.
togglePauseBody_NoGameOverReturn ==
  /\ isPaused' = ~isPaused
  /\ IF ~isPaused
     THEN LET st == stopLoop(timers, loopId)
          IN  timers' = st.timers /\ loopId' = st.loopId
     ELSE LET sl == startLoop(timers, loopId, tickMs)
          IN  timers' = sl.timers /\ loopId' = sl.loopId

\* The body of togglePause.
togglePauseBody ==
  IF isGameOver
  THEN UNCHANGED << isPaused, timers, loopId >>
  ELSE /\ isPaused' = ~isPaused
       /\ IF ~isPaused
          THEN LET st == stopLoop(timers, loopId)
               IN  timers' = st.timers /\ loopId' = st.loopId
          ELSE LET sl == startLoop(timers, loopId, tickMs)
               IN  timers' = sl.timers /\ loopId' = sl.loopId

TogglePause ==
  /\ togglePauseBody
  /\ lastEvent' = "togglePause"
  /\ UNCHANGED << snake, directionQueue, food, score, best, tickMs,
                  isGameOver, difficultyKey, ticks >>

\* Variant of resume without its early return.
Resume_NoReturn ==
  /\ togglePauseBody
  /\ lastEvent' = "resume"
  /\ UNCHANGED << snake, directionQueue, food, score, best, tickMs,
                  isGameOver, difficultyKey, ticks >>

Resume ==
  /\ IF ~isPaused \/ isGameOver
     THEN UNCHANGED << isPaused, timers, loopId >>
     ELSE togglePauseBody
  /\ lastEvent' = "resume"
  /\ UNCHANGED << snake, directionQueue, food, score, best, tickMs,
                  isGameOver, difficultyKey, ticks >>

\* gameOver, called from tick.
gameOver ==
  LET st == stopLoop(timers, loopId)
  IN  /\ isGameOver' = TRUE
      /\ timers' = st.timers
      /\ loopId' = st.loopId

\* tick, the callback of a live interval.
Tick ==
  /\ DOMAIN timers # {}
  /\ lastEvent' = "tick"
  /\ IF isPaused \/ isGameOver
     THEN UNCHANGED << snake, directionQueue, food, score, best, tickMs, loopId,
                       isPaused, isGameOver, difficultyKey, timers, ticks >>
     ELSE
       LET currentDir == directionQueue[1]
           nextHead   == computeNextHead(snake[1], currentDir)
       IN  /\ ticks < MaxTicks
           /\ ticks' = ticks + 1
           /\ directionQueue' = consumeOne(directionQueue)
           /\ UNCHANGED << isPaused, difficultyKey >>
           /\ IF hitsWall(nextHead) \/ hitsSelf(nextHead, snake)
              THEN /\ gameOver
                   /\ UNCHANGED << snake, food, score, best, tickMs >>
              ELSE IF positionsEqual(nextHead, food)
              THEN LET grown == unshift(snake, nextHead)
                       sc    == updateScore(score, 1)
                       ms    == maybeSpeedUp(difficultyKey, sc, tickMs)
                       sl    == IF ms # tickMs
                                THEN startLoop(timers, loopId, ms)
                                ELSE [ timers |-> timers, loopId |-> loopId ]
                   IN  /\ snake' = grown
                       /\ score' = sc
                       /\ best' = updateBest(sc, best)
                       /\ tickMs' = ms
                       /\ timers' = sl.timers
                       /\ loopId' = sl.loopId
                       /\ food' \in getRandomEmptyCell(grown)
                       /\ UNCHANGED isGameOver
              ELSE /\ snake' = pop(unshift(snake, nextHead))
                   /\ UNCHANGED << food, score, best, tickMs, timers, loopId,
                                   isGameOver >>

Next ==
  \/ Tick
  \/ QueueDirection
  \/ TogglePause
  \/ Resume
  \/ Restart
  \/ ChangeDifficulty

Spec == Init /\ [][Next]_vars

\* ---------------------------------------------------------------------------
\* A long game: the player steers the head along a closed path through every
\* cell of the grid, and each food is drawn at the cell the head enters next.
\* ---------------------------------------------------------------------------

\* The cell after c on the path: rightwards along even rows and leftwards
\* along odd rows within columns 1 .. GRID_SIZE - 1, the last row leftwards to
\* column 0, and column 0 upwards back to row 0.
CycleNext(c) ==
  IF c.x = 0
  THEN IF c.y > 0 THEN Cell(0, c.y - 1) ELSE Cell(1, 0)
  ELSE IF c.y % 2 = 0
  THEN IF c.x < GRID_SIZE - 1 THEN Cell(c.x + 1, c.y) ELSE Cell(c.x, c.y + 1)
  ELSE IF c.y = GRID_SIZE - 1 \/ c.x > 1
  THEN Cell(c.x - 1, c.y)
  ELSE Cell(c.x, c.y + 1)

\* The key that turns the head from the cell it enters next to the one after.
CycleKey(head) ==
  LET a == CycleNext(head)
      b == CycleNext(a)
  IN  Cell(b.x - a.x, b.y - a.y)

\* getRandomEmptyCell with the draw that lands on the cell after the head
\* when that cell is free, and one fixed free cell of the grid otherwise.
\* With no free cell the code loops for ever: the set is empty.
getRandomEmptyCellAhead(exclusions) ==
  LET isFree(c) == \A i \in 1 .. Len(exclusions) : ~positionsEqual(exclusions[i], c)
      ahead     == CycleNext(exclusions[1])
  IN  IF isFree(ahead) THEN { ahead }
      ELSE IF \A c \in Grid : ~isFree(c) THEN {}
      ELSE { CHOOSE c \in Grid : isFree(c) }

\* The state after init() with the first food drawn at the cell ahead.
InitCycle ==
  /\ Init
  /\ food \in getRandomEmptyCellAhead(InitialSnake)

\* keydown of the key for the turn after next, pressed once per tick.
CyclePress ==
  /\ ~isPaused /\ ~isGameOver
  /\ Len(directionQueue) = 1
  /\ directionQueue' = queueDirection(directionQueue, CycleKey(snake[1]))
  /\ lastEvent' = "queueDirection"
  /\ UNCHANGED << snake, food, score, best, tickMs, loopId, isPaused,
                  isGameOver, difficultyKey, timers, ticks >>

\* tick, fired after the key press of the period.
CycleTick ==
  /\ DOMAIN timers # {}
  /\ ~isPaused /\ ~isGameOver
  /\ Len(directionQueue) = 2
  /\ lastEvent' = "tick"
  /\ LET currentDir == directionQueue[1]
         nextHead   == computeNextHead(snake[1], currentDir)
     IN  /\ ticks' = ticks + 1
         /\ directionQueue' = consumeOne(directionQueue)
         /\ UNCHANGED << isPaused, difficultyKey >>
         /\ IF hitsWall(nextHead) \/ hitsSelf(nextHead, snake)
            THEN /\ gameOver
                 /\ UNCHANGED << snake, food, score, best, tickMs >>
            ELSE IF positionsEqual(nextHead, food)
            THEN LET grown == unshift(snake, nextHead)
                     sc    == updateScore(score, 1)
                     ms    == maybeSpeedUp(difficultyKey, sc, tickMs)
                     sl    == IF ms # tickMs
                              THEN startLoop(timers, loopId, ms)
                              ELSE [ timers |-> timers, loopId |-> loopId ]
                 IN  /\ snake' = grown
                     /\ score' = sc
                     /\ best' = updateBest(sc, best)
                     /\ tickMs' = ms
                     /\ timers' = sl.timers
                     /\ loopId' = sl.loopId
                     /\ food' \in getRandomEmptyCellAhead(grown)
                     /\ UNCHANGED isGameOver
            ELSE /\ snake' = pop(unshift(snake, nextHead))
                 /\ UNCHANGED << food, score, best, tickMs, timers, loopId,
                                 isGameOver >>

\* The pause and resume buttons, the restart button and the select, used
\* early in a game.
CycleTogglePause == ticks < ClickTicks /\ TogglePause

CycleResume == ticks < ClickTicks /\ Resume

CycleRestart == ticks < ClickTicks /\ Restart

CycleChangeDifficulty == ticks < ClickTicks /\ ChangeDifficulty

NextCycle ==
  \/ CyclePress
  \/ CycleTick
  \/ CycleTogglePause
  \/ CycleResume
  \/ CycleRestart
  \/ CycleChangeDifficulty

SpecCycle == InitCycle /\ [][NextCycle]_vars

\* ================================================================ claims
\* What the properties read off a step, written out from the state alone.
ResetEvents == { "restart", "difficulty" }

ExecutedTick == Phase = "Running" /\ lastEvent' = "tick"

StepNextHead ==
  [ x |-> snake[1].x + directionQueue[1].x, y |-> snake[1].y + directionQueue[1].y ]

StepOutside ==
  \/ StepNextHead.x < 0 \/ StepNextHead.x > GRID_SIZE - 1
  \/ StepNextHead.y < 0 \/ StepNextHead.y > GRID_SIZE - 1

StepOnSnake == \E i \in 1 .. Len(snake) : snake[i] = StepNextHead

StepCollides == StepOutside \/ StepOnSnake

Adjacent(a, b) ==
  \/ a.x = b.x /\ (a.y = b.y + 1 \/ b.y = a.y + 1)
  \/ a.y = b.y /\ (a.x = b.x + 1 \/ b.x = a.x + 1)

NoTimer == DOMAIN timers = {} /\ loopId = 0

\* C1: while the phase is not GameOver, no two cells of the snake are equal.
C1_NoDuplicateCells ==
  Phase # "GameOver" =>
    \A i, j \in 1 .. Len(snake) : i # j => snake[i] # snake[j]

\* A running snake whose head is next to one of its own inner cells: one
\* turn away from running into its body.
C1_Witness ==
  /\ Phase = "Running"
  /\ Len(snake) >= 5
  /\ \E i \in 3 .. Len(snake) - 1 : Adjacent(snake[1], snake[i])

\* C2: after resetGame the phase is Paused; while Paused nothing but a reset
\* changes snake, score or food, and Paused is left only by togglePause or
\* resume.
C2_RestartLeavesPaused ==
  [][ /\ lastEvent' \in ResetEvents => Phase' = "Paused"
      /\ (Phase = "Paused" /\ lastEvent' \notin ResetEvents) =>
           /\ UNCHANGED << snake, score, food >>
           /\ Phase' # "Paused" => lastEvent' \in { "togglePause", "resume" } ]_vars

\* C3: a tick executed while Running ends the game exactly when the next head
\* is outside the grid or on any cell of the snake, the tail included; it
\* then stops the timer and leaves snake, food, score and interval alone.
C3_CollisionEndsGame ==
  [][ ExecutedTick =>
        IF StepCollides
        THEN /\ Phase' = "GameOver"
             /\ NoTimer'
             /\ UNCHANGED << snake, food, score, tickMs >>
        ELSE Phase' = "Running" ]_vars

\* The game ended by the head moving onto the cell its tail occupied.
C3_Witness ==
  /\ Phase = "GameOver"
  /\ NoTimer
  /\ Len(directionQueue) = 1
  /\ snake[Len(snake)] =
       [ x |-> snake[1].x + directionQueue[1].x, y |-> snake[1].y + directionQueue[1].y ]

\* C4: a running tick whose next head is free puts the next head in front of
\* the old snake, dropping the last cell unless the next head is the food.
C4_AdvanceShape ==
  [][ (ExecutedTick /\ ~StepCollides) =>
        snake' = IF StepNextHead = food
                 THEN << StepNextHead >> \o snake
                 ELSE << StepNextHead >> \o SubSeq(snake, 1, Len(snake) - 1) ]_vars

\* Two ticks into a game, one of which ate.
C4_Witness ==
  /\ Phase = "Running"
  /\ ticks = 2
  /\ score = 1
  /\ Len(snake) = 4

\* C5: the food is a cell of the grid and no cell of the snake.
C5_FoodOffSnake ==
  /\ food.x \in 0 .. GRID_SIZE - 1
  /\ food.y \in 0 .. GRID_SIZE - 1
  /\ \A i \in 1 .. Len(snake) : snake[i] # food

\* Right after the tick that ate the first food and drew another.
C5_Witness ==
  /\ lastEvent = "tick"
  /\ ticks = 1
  /\ score = 1
  /\ Len(snake) = 4

\* C6: a reset sets the score to 0; a running tick whose next head is the
\* food adds exactly 1; nothing else changes the score.
C6_ScoreSteps ==
  [][ IF lastEvent' \in ResetEvents THEN score' = 0
      ELSE IF ExecutedTick /\ ~StepCollides /\ StepNextHead = food
           THEN score' = score + 1
           ELSE score' = score ]_vars

C6_Witness == score = 2 /\ lastEvent = "tick"

\* The difficulty in force is one of the four presets.
IsPreset == difficultyKey \in DifficultyKeys

\* C7: under each of the four presets the interval starts at the preset's
\* initial value, is set back to it by a reset, never grows otherwise, and is
\* never below the preset's floor.
C7_TickInterval ==
  /\ IsPreset => tickMs = DIFFICULTIES[difficultyKey].initialSpeedMs
  /\ [](IsPreset =>
          /\ tickMs >= DIFFICULTIES[difficultyKey].minTickMs
          /\ tickMs <= DIFFICULTIES[difficultyKey].initialSpeedMs)
  /\ [][ IsPreset' =>
           IF lastEvent' \in ResetEvents
           THEN tickMs' = DIFFICULTIES[difficultyKey'].initialSpeedMs
           ELSE tickMs' <= tickMs /\ difficultyKey' = difficultyKey ]_vars

\* A speed-up that the floor cut short: the interval is at the floor and the
\* unfloored product would have been below it.
C7_Witness ==
  /\ IsPreset
  /\ score > 0
  /\ score % DIFFICULTIES[difficultyKey].speedupFoodInterval = 0
  /\ tickMs = DIFFICULTIES[difficultyKey].minTickMs
  /\ lastEvent = "tick"

\* C8: queueDirection appends next unless next is the opposite of the last
\* entry, and then leaves the queue as it is; no two neighbours of the queue
\* sum to (0,0).
C8_QueueDirection ==
  /\ \A next \in Directions :
       LET last == directionQueue[Len(directionQueue)]
       IN  queueDirection(directionQueue, next) =
             IF last.x + next.x = 0 /\ last.y + next.y = 0
             THEN directionQueue
             ELSE directionQueue \o << next >>
  /\ \A i \in 1 .. Len(directionQueue) - 1 :
       ~( /\ directionQueue[i].x + directionQueue[i + 1].x = 0
          /\ directionQueue[i].y + directionQueue[i + 1].y = 0 )

\* Two turns queued behind the active direction.
C8_Witness ==
  /\ lastEvent = "queueDirection"
  /\ Len(directionQueue) = 3
  /\ directionQueue[1] # directionQueue[2]
  /\ directionQueue[2] # directionQueue[3]

\* C9 as stated: togglePause while Paused and resume while Running change
\* nothing.
C9_PauseResumeNoOp ==
  [][ ( \/ lastEvent' = "togglePause" /\ Phase = "Paused"
        \/ lastEvent' = "resume" /\ Phase = "Running" ) =>
        UNCHANGED << snake, directionQueue, food, score, tickMs, isPaused,
                     isGameOver, timers, loopId >> ]_vars

\* C9 amended: resume while Running changes nothing; togglePause while
\* Paused resumes the game, arming one timer at the current interval and
\* leaving snake, food, score, interval and queue alone.
C9_ResumeNoOpToggleResumes ==
  [][ /\ (lastEvent' = "resume" /\ Phase = "Running") =>
           UNCHANGED << snake, directionQueue, food, score, tickMs, isPaused,
                        isGameOver, timers, loopId >>
      /\ (lastEvent' = "togglePause" /\ Phase = "Paused") =>
           /\ Phase' = "Running"
           /\ loopId' # 0
           /\ DOMAIN timers' = { loopId' }
           /\ timers'[loopId'] = tickMs
           /\ UNCHANGED << snake, directionQueue, food, score, tickMs >> ]_vars

\* A game under way that togglePause has just set running again.
C9_Witness ==
  /\ lastEvent = "togglePause"
  /\ Phase = "Running"
  /\ ticks >= 1

\* C10: in GameOver no timer is armed, and every step but a reset keeps the
\* phase, snake, food, score, interval and the stopped timer as they are.
C10_GameOverTerminal ==
  /\ [](Phase = "GameOver" => NoTimer)
  /\ [][ (Phase = "GameOver" /\ lastEvent' \notin ResetEvents) =>
           /\ Phase' = "GameOver"
           /\ UNCHANGED << snake, food, score, tickMs, timers, loopId >> ]_vars

\* togglePause called on a finished game.
C10_Witness == Phase = "GameOver" /\ lastEvent = "togglePause"

\* The state a reset leaves, written out cell by cell.
FreshGame ==
  /\ snake = << [x |-> 10, y |-> 10], [x |-> 9, y |-> 10], [x |-> 8, y |-> 10] >>
  /\ directionQueue = << [x |-> 1, y |-> 0] >>
  /\ score = 0
  /\ tickMs = IF IsPreset THEN DIFFICULTIES[difficultyKey].initialSpeedMs
                        ELSE Undefined
  /\ ~isGameOver
  /\ \A i \in 1 .. Len(snake) : snake[i] # food

\* C11: restart and difficulty change leave the fixed initial snake, the
\* queue [(1,0)], score 0, the initial interval of the difficulty in force,
\* no game over, and food off the snake; restart keeps the difficulty.
C11_RestartRecreates ==
  [][ /\ lastEvent' \in ResetEvents => FreshGame'
      /\ lastEvent' = "restart" => difficultyKey' = difficultyKey ]_vars

\* A restart after a game that scored 2.
C11_Witness ==
  /\ lastEvent = "restart"
  /\ best = [whole |-> 2, half |-> FALSE]
  /\ score = 0
  /\ Len(directionQueue) = 1

\* C12: Paused and GameOver have no timer armed, Running has exactly one;
\* only a running game ticks; resume from Paused arms one timer at the
\* current interval.
C12_ClockFollowsPhase ==
  /\ [](IF Phase = "Running"
        THEN loopId # 0 /\ DOMAIN timers = { loopId }
        ELSE DOMAIN timers = {} /\ loopId = 0)
  /\ [][ /\ lastEvent' = "tick" => Phase = "Running"
         /\ (lastEvent' = "resume" /\ Phase = "Paused") =>
              /\ Phase' = "Running"
              /\ DOMAIN timers' = { loopId' }
              /\ timers'[loopId'] = tickMs ]_vars

\* A game under way that resume has just set running again.
C12_Witness ==
  /\ lastEvent = "resume"
  /\ Phase = "Running"
  /\ ticks >= 1
  /\ DOMAIN timers = { loopId }

\* C13: best is never below score, never decreases, and changes only to the
\* score that has just passed it.
C13_BestScore ==
  /\ [](best.whole >= score)
  /\ [][ /\ \/ best'.whole > best.whole
            \/ best'.whole = best.whole /\ (best.half => best'.half)
         /\ best' # best =>
              /\ score' > best.whole
              /\ best' = [whole |-> score', half |-> FALSE] ]_vars

\* A stored best of 1 1/2 that a score of 1 has not passed.
C13_Witness ==
  /\ lastEvent = "tick"
  /\ score = 1
  /\ best = [whole |-> 1, half |-> TRUE]

\* C14: the difficulty changes only in the difficulty handler, and that step
\* is a full reset to the new difficulty's initial interval.
C14_DifficultyFixedInGame ==
  [][ difficultyKey' # difficultyKey =>
           (lastEvent' = "difficulty" /\ FreshGame') ]_vars

\* A difficulty change after a game that scored 2.
C14_Witness ==
  /\ lastEvent = "difficulty"
  /\ best = [whole |-> 2, half |-> FALSE]
  /\ score = 0
  /\ difficultyKey = "hard"

\* C15: the snake never fills the grid, and no running tick that eats leaves
\* the food placement without a free cell (the cells of the snake are
\* distinct, so the grown snake leaves a free cell exactly when it is
\* shorter than the grid).
C15_FoodPlacementHasFreeCell ==
  /\ Len(snake) < GRID_SIZE * GRID_SIZE
  /\ (Phase = "Running" /\ ~StepCollides /\ StepNextHead = food) =>
       Len(snake) + 1 < GRID_SIZE * GRID_SIZE

\* The interval maybeSpeedUp computes from the current one.
StepNewTick ==
  LET d       == DIFFICULTIES[difficultyKey]
      reduced == (tickMs * d.speedupPct) \div 100
  IN  IF reduced < d.minTickMs THEN d.minTickMs ELSE reduced

StepEats == lastEvent' = "tick" /\ score' = score + 1

StepSpeedUpDue ==
  /\ IsPreset
  /\ StepEats
  /\ score' > 0
  /\ score' % DIFFICULTIES[difficultyKey].speedupFoodInterval = 0

SameTimer == timers' = timers /\ loopId' = loopId

\* On an eating tick whose new score is due the interval becomes
\* max(minTickMs, floor(tickMs * speedupFactor)), and the timer is re-armed
\* at it exactly when it differs from the old interval.
StepCurve ==
  StepSpeedUpDue =>
    /\ tickMs' = StepNewTick
    /\ IF StepNewTick # tickMs
       THEN /\ timers' # timers
            /\ DOMAIN timers' = { loopId' }
            /\ timers'[loopId'] = StepNewTick
       ELSE SameTimer

\* C16 as stated: the speed curve, and on every other step but a reset the
\* interval and the armed timer are unchanged.
C16_OnlySpeedUpTouchesTimer ==
  [][ /\ StepCurve
      /\ (~StepSpeedUpDue /\ lastEvent' \notin ResetEvents) =>
           (tickMs' = tickMs /\ SameTimer) ]_vars

\* C16: the speed curve; on every other step but a reset the interval is
\* unchanged, and the armed timer is unchanged unless the step pauses,
\* resumes or ends the game.
C16_SpeedCurve ==
  [][ /\ StepCurve
      /\ (~StepSpeedUpDue /\ lastEvent' \notin ResetEvents) =>
           /\ tickMs' = tickMs
           /\ Phase' = Phase => SameTimer
           /\ Phase' # "Running" => NoTimer'
           /\ (Phase # "Running" /\ Phase' = "Running") =>
                (DOMAIN timers' = { loopId' } /\ timers'[loopId'] = tickMs) ]_vars

\* A due eating tick late on the curve, where the reduced interval is below
\* the floor and the interval and the timer are kept.
C16_Witness ==
  /\ IsPreset
  /\ lastEvent = "tick"
  /\ score > 0
  /\ score % DIFFICULTIES[difficultyKey].speedupFoodInterval = 0
  /\ tickMs = DIFFICULTIES[difficultyKey].minTickMs
  /\ (tickMs * DIFFICULTIES[difficultyKey].speedupPct) \div 100
       < DIFFICULTIES[difficultyKey].minTickMs

\* C17: the queue is never empty; a running tick moves by its first entry
\* (or ends the game when that move collides), removes that entry when
\* another follows it and keeps a sole entry.
C17_QueueConsumption ==
  /\ [](Len(directionQueue) >= 1)
  /\ [][ ExecutedTick =>
           /\ IF StepCollides THEN isGameOver' ELSE snake'[1] = StepNextHead
           /\ directionQueue' =
                IF Len(directionQueue) > 1
                THEN SubSeq(directionQueue, 2, Len(directionQueue))
                ELSE directionQueue
           /\ Len(directionQueue') >= Len(directionQueue) - 1 ]_vars

\* A turn applied twice: its entry was alone after the first of the two ticks.
C17_Witness ==
  /\ lastEvent = "tick"
  /\ Phase = "Running"
  /\ ticks >= 3
  /\ directionQueue = << [x |-> 0, y |-> -1] >>
  /\ snake[1].x = snake[3].x

\* C18: the snake has three cells plus one per point of score.
C18_LengthIsScorePlusThree == Len(snake) = 3 + score

\* Two foods eaten and plain moves made besides.
C18_Witness ==
  /\ Len(snake) = 5
  /\ ticks >= 4
  /\ lastEvent = "tick"

\* The direction of the last move of the snake: head minus second cell (the
\* initial snake heads right).
Heading == [ x |-> snake[1].x - snake[2].x, y |-> snake[1].y - snake[2].y ]

\* C19: in a running game the direction the next tick applies is never the
\* opposite of the direction of the previous move, and the next head is not
\* the second cell.
C19_NoReversal ==
  Phase = "Running" =>
    /\ ~(directionQueue[1].x + Heading.x = 0 /\ directionQueue[1].y + Heading.y = 0)
    /\ StepNextHead # snake[2]

\* After a turn upward has been applied, with a turn sideways first in the
\* queue.
C19_Witness ==
  /\ Phase = "Running"
  /\ lastEvent = "tick"
  /\ ticks >= 2
  /\ Heading = [x |-> 0, y |-> -1]
  /\ directionQueue[1].y = 0

\* C20: at most one timer is armed, it is the one loopId holds, and its
\* period is the current interval.
C20_OneTimerAtTickMs ==
  /\ Cardinality(DOMAIN timers) <= 1
  /\ DOMAIN timers # {} => (DOMAIN timers = { loopId } /\ timers[loopId] = tickMs)

\* The timer re-armed by a speed-up.
C20_Witness ==
  /\ IsPreset
  /\ DOMAIN timers = { loopId }
  /\ tickMs < DIFFICULTIES[difficultyKey].initialSpeedMs
  /\ timers[loopId] = tickMs

\* C21: every cell of the snake lies in the grid on both axes, and each cell
\* is one unit step along one axis from the cell after it.
C21_SnakeInGridAndConnected ==
  /\ \A i \in 1 .. Len(snake) :
       /\ snake[i].x >= 0 /\ snake[i].x < GRID_SIZE
       /\ snake[i].y >= 0 /\ snake[i].y < GRID_SIZE
  /\ \A i \in 1 .. Len(snake) - 1 : Adjacent(snake[i], snake[i + 1])

\* Game over against the right wall, with a snake that has grown.
C21_Witness ==
  /\ isGameOver
  /\ snake[1].x = GRID_SIZE - 1
  /\ Len(snake) >= 4

====
